---- MODULE Spec2Model ----
(***************************************************************************)
(* waiter: a diagnostic HTTP server (src/src/main.rs).  main validates the *)
(* configured return code, binds a listener and runs a sequential accept   *)
(* loop; handle_connection reads the header block, decides the body        *)
(* framing, assembles the body and answers with a bare status line.        *)
(*                                                                         *)
(* Text.  A Rust String and a run of stream bytes are both TLA+ strings,   *)
(* used through Len, SubSeq and \o only.  Printable ASCII, "\r", "\n" and  *)
(* "\t" stand for themselves.  Three bytes outside ASCII and two decoded   *)
(* characters outside ASCII are written with reserved ASCII letters that   *)
(* no request of the model uses for anything else:                         *)
(*     "{"  the byte 0xC3  (lead byte of a two-byte UTF-8 sequence)        *)
(*     "}"  the byte 0xA9  (a UTF-8 continuation byte)                     *)
(*     "|"  the byte 0xFF  (never valid in UTF-8)                          *)
(*     "@"  the character U+00E9, whose UTF-8 encoding is 0xC3 0xA9        *)
(*     "?"  the character U+FFFD REPLACEMENT CHARACTER                     *)
(***************************************************************************)
EXTENDS Integers, Sequences, FiniteSets, TLC

VARIABLES
    pc,             \* position of the single thread: main / handle_connection
    clients,        \* which universe of clients the environment draws from
    return_code,    \* args.return_code (u16)
    http_response_code, \* Option<HttpStatusCode> returned by from_u16
    listener,       \* "none" | "bound"
    handler,        \* "idle" | "running" | "responded" | "aborted"
    request,        \* the accepted connection: [bytes, end] as the peer sent it
    input,          \* bytes of the stream not yet consumed through buf_reader
    headers,        \* Vec<String>
    line,           \* String
    is_chunked,     \* bool
    chunk_size,     \* usize
    content_length, \* Option<usize>
    body,           \* String
    body_on_wire,   \* the bytes that were unread when header collection ended
    reads,          \* number of read calls made on the stream by this handler
    console,        \* what this handler printed, in order
    written,        \* write_all calls made on this stream, in order
    previous        \* the connection handled before this one, and what it got

vars == <<pc, clients, return_code, http_response_code, listener, handler,
          request, input, headers, line, is_chunked, chunk_size,
          content_length, body, body_on_wire, reads, console, written,
          previous>>

\* ------------------------------------------------------------------ Option
None == [some |-> FALSE]

Some(x) == [some |-> TRUE, val |-> x]

\* ------------------------------------------------------------------ text
Char(str, at) == SubSeq(str, at, at)

Drop(str, count) == SubSeq(str, count + 1, Len(str))

Take(str, count) == SubSeq(str, 1, count)

UpperCase == "ABCDEFGHIJKLMNOPQRSTUVWXYZ"

LowerCase == "abcdefghijklmnopqrstuvwxyz"

\* char::to_lowercase over the model's alphabet (only A-Z have a mapping)
char_to_lowercase(c) ==
    IF \E i \in 1..Len(UpperCase) : Char(UpperCase, i) = c
    THEN LET i == CHOOSE i \in 1..Len(UpperCase) : Char(UpperCase, i) = c
         IN  Char(LowerCase, i)
    ELSE c

\* s[k..] in lower case
RECURSIVE lowercase_from(_, _)
lowercase_from(s, k) ==
    IF k > Len(s) THEN "" ELSE char_to_lowercase(Char(s, k)) \o lowercase_from(s, k + 1)

\* str::to_lowercase
to_lowercase(s) == lowercase_from(s, 1)

starts_with(s, p) == Len(s) >= Len(p) /\ Take(s, Len(p)) = p

\* position of the first occurrence of p in s, 0 when there is none
find(s, p) ==
    LET at == {i \in 1..(Len(s) - Len(p) + 1) : SubSeq(s, i, i + Len(p) - 1) = p}
    IN  IF at = {} THEN 0 ELSE CHOOSE i \in at : \A j \in at : i <= j

contains(s, p) == find(s, p) # 0

\* char::is_whitespace over the model's alphabet
WhiteSpace == {" ", "\t", "\n", "\r", "\f"}

\* str::trim: leading and trailing whitespace removed
trim(s) ==
    LET keep == {k \in 1..Len(s) : Char(s, k) \notin WhiteSpace}
    IN  IF keep = {} THEN ""
        ELSE SubSeq(s, CHOOSE k \in keep : \A m \in keep : k <= m,
                       CHOOSE k \in keep : \A m \in keep : k >= m)

\* header.split(": ").nth(1): the piece between the first and the second
\* occurrence of ": ", None when ": " does not occur
split_nth1(s) ==
    LET i == find(s, ": ")
    IN  IF i = 0 THEN None
        ELSE LET rest == Drop(s, i + 1)
                 j    == find(rest, ": ")
             IN  Some(IF j = 0 THEN rest ELSE Take(rest, j - 1))

Digits == "0123456789abcdef"

\* char::to_digit(radix): the digit's value, -1 when c is no digit of the radix
to_digit(c, radix) ==
    LET lc == char_to_lowercase(c)
        at == {i \in 1..radix : Char(Digits, i) = lc}
    IN  IF at = {} THEN -1 ELSE (CHOOSE i \in at : TRUE) - 1

\* the value of the digits s[k..], after the value acc of those before them
RECURSIVE digits_value(_, _, _, _)
digits_value(s, radix, k, acc) ==
    IF k > Len(s) THEN Some(acc)
    ELSE IF to_digit(Char(s, k), radix) < 0 THEN None
    ELSE digits_value(s, radix, k + 1, acc * radix + to_digit(Char(s, k), radix))

\* usize::from_str_radix: an optional "+", then one or more digits; the empty
\* string, a lone sign and any other character are errors.  (Overflow of the
\* 64-bit usize is an error too; no number of the model comes near it.)
from_str_radix(s, radix) ==
    IF s = "" THEN None
    ELSE IF Char(s, 1) = "+"
         THEN (IF Len(s) = 1 THEN None ELSE digits_value(s, radix, 2, 0))
    ELSE IF Char(s, 1) = "-" THEN None
    ELSE digits_value(s, radix, 1, 0)

\* str::parse::<usize>
parse_usize(s) == from_str_radix(s, 10)

\* ------------------------------------------------------------------ UTF-8
Lead2 == {"{"}

Continuation == {"}"}

NeverValid == {"|"}

IsAscii(b) == b \notin (Lead2 \cup Continuation \cup NeverValid)

\* the character encoded by lead byte a followed by continuation byte b
Decode2(a, b) == "@"

REPLACEMENT_CHARACTER == "?"

\* the two-byte sequence at bytes[k] is well formed
TwoByteAt(bytes, k) ==
    /\ Char(bytes, k) \in Lead2
    /\ k < Len(bytes)
    /\ Char(bytes, k + 1) \in Continuation

\* bytes[k..] decoded, every maximal ill-formed run replaced by U+FFFD
RECURSIVE lossy_from(_, _)
lossy_from(bytes, k) ==
    IF k > Len(bytes) THEN ""
    ELSE IF IsAscii(Char(bytes, k)) THEN Char(bytes, k) \o lossy_from(bytes, k + 1)
    ELSE IF TwoByteAt(bytes, k)
         THEN Decode2(Char(bytes, k), Char(bytes, k + 1)) \o lossy_from(bytes, k + 2)
    ELSE REPLACEMENT_CHARACTER \o lossy_from(bytes, k + 1)

\* String::from_utf8_lossy
from_utf8_lossy(bytes) == lossy_from(bytes, 1)

\* bytes[k..] is well-formed UTF-8
RECURSIVE utf8_from(_, _)
utf8_from(bytes, k) ==
    IF k > Len(bytes) THEN TRUE
    ELSE IF IsAscii(Char(bytes, k)) THEN utf8_from(bytes, k + 1)
    ELSE IF TwoByteAt(bytes, k) THEN utf8_from(bytes, k + 2)
    ELSE FALSE

\* std::str::from_utf8(..).is_ok()
is_utf8(bytes) == utf8_from(bytes, 1)

\* String::from_utf8: Ok(the decoded text) or Err
from_utf8(bytes) == IF is_utf8(bytes) THEN Some(from_utf8_lossy(bytes)) ELSE None

\* ------------------------------------------------------------------ Status Registry
HttpStatusCode ==
    {"Continue", "SwitchingProtocols", "Processing", "OK",
     "Created", "Accepted", "NonAuthoritativeInformation", "NoContent",
     "ResetContent", "PartialContent", "MultiStatus", "AlreadyReported",
     "IMUsed", "MultipleChoices", "MovedPermanently", "Found",
     "SeeOther", "NotModified", "UseProxy", "TemporaryRedirect",
     "PermanentRedirect", "BadRequest", "Unauthorized", "PaymentRequired",
     "Forbidden", "NotFound", "MethodNotAllowed", "NotAcceptable",
     "ProxyAuthenticationRequired", "RequestTimeout", "Conflict", "Gone",
     "LengthRequired", "PreconditionFailed", "PayloadTooLarge", "URITooLong",
     "UnsupportedMediaType", "RangeNotSatisfiable", "ExpectationFailed", "ImATeapot",
     "MisdirectedRequest", "UnprocessableEntity", "Locked", "FailedDependency",
     "TooEarly", "UpgradeRequired", "PreconditionRequired", "TooManyRequests",
     "RequestHeaderFieldsTooLarge", "UnavailableForLegalReasons", "InternalServerError", "NotImplemented",
     "BadGateway", "ServiceUnavailable", "GatewayTimeout", "HTTPVersionNotSupported",
     "VariantAlsoNegotiates", "InsufficientStorage", "LoopDetected", "NotExtended",
     "NetworkAuthenticationRequired"}

Discriminant(v) ==
     CASE v = "Continue" -> 100
       [] v = "SwitchingProtocols" -> 101
       [] v = "Processing" -> 102
       [] v = "OK" -> 200
       [] v = "Created" -> 201
       [] v = "Accepted" -> 202
       [] v = "NonAuthoritativeInformation" -> 203
       [] v = "NoContent" -> 204
       [] v = "ResetContent" -> 205
       [] v = "PartialContent" -> 206
       [] v = "MultiStatus" -> 207
       [] v = "AlreadyReported" -> 208
       [] v = "IMUsed" -> 226
       [] v = "MultipleChoices" -> 300
       [] v = "MovedPermanently" -> 301
       [] v = "Found" -> 302
       [] v = "SeeOther" -> 303
       [] v = "NotModified" -> 304
       [] v = "UseProxy" -> 305
       [] v = "TemporaryRedirect" -> 307
       [] v = "PermanentRedirect" -> 308
       [] v = "BadRequest" -> 400
       [] v = "Unauthorized" -> 401
       [] v = "PaymentRequired" -> 402
       [] v = "Forbidden" -> 403
       [] v = "NotFound" -> 404
       [] v = "MethodNotAllowed" -> 405
       [] v = "NotAcceptable" -> 406
       [] v = "ProxyAuthenticationRequired" -> 407
       [] v = "RequestTimeout" -> 408
       [] v = "Conflict" -> 409
       [] v = "Gone" -> 410
       [] v = "LengthRequired" -> 411
       [] v = "PreconditionFailed" -> 412
       [] v = "PayloadTooLarge" -> 413
       [] v = "URITooLong" -> 414
       [] v = "UnsupportedMediaType" -> 415
       [] v = "RangeNotSatisfiable" -> 416
       [] v = "ExpectationFailed" -> 417
       [] v = "ImATeapot" -> 418
       [] v = "MisdirectedRequest" -> 421
       [] v = "UnprocessableEntity" -> 422
       [] v = "Locked" -> 423
       [] v = "FailedDependency" -> 424
       [] v = "TooEarly" -> 425
       [] v = "UpgradeRequired" -> 426
       [] v = "PreconditionRequired" -> 428
       [] v = "TooManyRequests" -> 429
       [] v = "RequestHeaderFieldsTooLarge" -> 431
       [] v = "UnavailableForLegalReasons" -> 451
       [] v = "InternalServerError" -> 500
       [] v = "NotImplemented" -> 501
       [] v = "BadGateway" -> 502
       [] v = "ServiceUnavailable" -> 503
       [] v = "GatewayTimeout" -> 504
       [] v = "HTTPVersionNotSupported" -> 505
       [] v = "VariantAlsoNegotiates" -> 506
       [] v = "InsufficientStorage" -> 507
       [] v = "LoopDetected" -> 508
       [] v = "NotExtended" -> 510
       [] v = "NetworkAuthenticationRequired" -> 511

reason_phrase(self) ==
     CASE self = "Continue" -> "Continue"
       [] self = "SwitchingProtocols" -> "Switching Protocols"
       [] self = "Processing" -> "Processing"
       [] self = "OK" -> "OK"
       [] self = "Created" -> "Created"
       [] self = "Accepted" -> "Accepted"
       [] self = "NonAuthoritativeInformation" -> "Non-Authoritative Information"
       [] self = "NoContent" -> "No Content"
       [] self = "ResetContent" -> "Reset Content"
       [] self = "PartialContent" -> "Partial Content"
       [] self = "MultiStatus" -> "Multi-Status"
       [] self = "AlreadyReported" -> "Already Reported"
       [] self = "IMUsed" -> "IM Used"
       [] self = "MultipleChoices" -> "Multiple Choices"
       [] self = "MovedPermanently" -> "Moved Permanently"
       [] self = "Found" -> "Found"
       [] self = "SeeOther" -> "See Other"
       [] self = "NotModified" -> "Not Modified"
       [] self = "UseProxy" -> "Use Proxy"
       [] self = "TemporaryRedirect" -> "Temporary Redirect"
       [] self = "PermanentRedirect" -> "Permanent Redirect"
       [] self = "BadRequest" -> "Bad Request"
       [] self = "Unauthorized" -> "Unauthorized"
       [] self = "PaymentRequired" -> "Payment Required"
       [] self = "Forbidden" -> "Forbidden"
       [] self = "NotFound" -> "Not Found"
       [] self = "MethodNotAllowed" -> "Method Not Allowed"
       [] self = "NotAcceptable" -> "Not Acceptable"
       [] self = "ProxyAuthenticationRequired" -> "Proxy Authentication Required"
       [] self = "RequestTimeout" -> "Request Timeout"
       [] self = "Conflict" -> "Conflict"
       [] self = "Gone" -> "Gone"
       [] self = "LengthRequired" -> "Length Required"
       [] self = "PreconditionFailed" -> "Precondition Failed"
       [] self = "PayloadTooLarge" -> "Payload Too Large"
       [] self = "URITooLong" -> "URI Too Long"
       [] self = "UnsupportedMediaType" -> "Unsupported Media Type"
       [] self = "RangeNotSatisfiable" -> "Range Not Satisfiable"
       [] self = "ExpectationFailed" -> "Expectation Failed"
       [] self = "ImATeapot" -> "I'm a teapot"
       [] self = "MisdirectedRequest" -> "Misdirected Request"
       [] self = "UnprocessableEntity" -> "Unprocessable Entity"
       [] self = "Locked" -> "Locked"
       [] self = "FailedDependency" -> "Failed Dependency"
       [] self = "TooEarly" -> "Too Early"
       [] self = "UpgradeRequired" -> "Upgrade Required"
       [] self = "PreconditionRequired" -> "Precondition Required"
       [] self = "TooManyRequests" -> "Too Many Requests"
       [] self = "RequestHeaderFieldsTooLarge" -> "Request Header Fields Too Large"
       [] self = "UnavailableForLegalReasons" -> "Unavailable For Legal Reasons"
       [] self = "InternalServerError" -> "Internal Server Error"
       [] self = "NotImplemented" -> "Not Implemented"
       [] self = "BadGateway" -> "Bad Gateway"
       [] self = "ServiceUnavailable" -> "Service Unavailable"
       [] self = "GatewayTimeout" -> "Gateway Timeout"
       [] self = "HTTPVersionNotSupported" -> "HTTP Version Not Supported"
       [] self = "VariantAlsoNegotiates" -> "Variant Also Negotiates"
       [] self = "InsufficientStorage" -> "Insufficient Storage"
       [] self = "LoopDetected" -> "Loop Detected"
       [] self = "NotExtended" -> "Not Extended"
       [] self = "NetworkAuthenticationRequired" -> "Network Authentication Required"

from_u16(value) ==
     CASE value = 100 -> Some("Continue")
       [] value = 101 -> Some("SwitchingProtocols")
       [] value = 102 -> Some("Processing")
       [] value = 200 -> Some("OK")
       [] value = 201 -> Some("Created")
       [] value = 202 -> Some("Accepted")
       [] value = 203 -> Some("NonAuthoritativeInformation")
       [] value = 204 -> Some("NoContent")
       [] value = 205 -> Some("ResetContent")
       [] value = 206 -> Some("PartialContent")
       [] value = 207 -> Some("MultiStatus")
       [] value = 208 -> Some("AlreadyReported")
       [] value = 226 -> Some("IMUsed")
       [] value = 300 -> Some("MultipleChoices")
       [] value = 301 -> Some("MovedPermanently")
       [] value = 302 -> Some("Found")
       [] value = 303 -> Some("SeeOther")
       [] value = 304 -> Some("NotModified")
       [] value = 305 -> Some("UseProxy")
       [] value = 307 -> Some("TemporaryRedirect")
       [] value = 308 -> Some("PermanentRedirect")
       [] value = 400 -> Some("BadRequest")
       [] value = 401 -> Some("Unauthorized")
       [] value = 402 -> Some("PaymentRequired")
       [] value = 403 -> Some("Forbidden")
       [] value = 404 -> Some("NotFound")
       [] value = 405 -> Some("MethodNotAllowed")
       [] value = 406 -> Some("NotAcceptable")
       [] value = 407 -> Some("ProxyAuthenticationRequired")
       [] value = 408 -> Some("RequestTimeout")
       [] value = 409 -> Some("Conflict")
       [] value = 410 -> Some("Gone")
       [] value = 411 -> Some("LengthRequired")
       [] value = 412 -> Some("PreconditionFailed")
       [] value = 413 -> Some("PayloadTooLarge")
       [] value = 414 -> Some("URITooLong")
       [] value = 415 -> Some("UnsupportedMediaType")
       [] value = 416 -> Some("RangeNotSatisfiable")
       [] value = 417 -> Some("ExpectationFailed")
       [] value = 418 -> Some("ImATeapot")
       [] value = 421 -> Some("MisdirectedRequest")
       [] value = 422 -> Some("UnprocessableEntity")
       [] value = 423 -> Some("Locked")
       [] value = 424 -> Some("FailedDependency")
       [] value = 425 -> Some("TooEarly")
       [] value = 426 -> Some("UpgradeRequired")
       [] value = 428 -> Some("PreconditionRequired")
       [] value = 429 -> Some("TooManyRequests")
       [] value = 431 -> Some("RequestHeaderFieldsTooLarge")
       [] value = 451 -> Some("UnavailableForLegalReasons")
       [] value = 500 -> Some("InternalServerError")
       [] value = 501 -> Some("NotImplemented")
       [] value = 502 -> Some("BadGateway")
       [] value = 503 -> Some("ServiceUnavailable")
       [] value = 504 -> Some("GatewayTimeout")
       [] value = 505 -> Some("HTTPVersionNotSupported")
       [] value = 506 -> Some("VariantAlsoNegotiates")
       [] value = 507 -> Some("InsufficientStorage")
       [] value = 508 -> Some("LoopDetected")
       [] value = 510 -> Some("NotExtended")
       [] value = 511 -> Some("NetworkAuthenticationRequired")
       [] OTHER -> None

\* ------------------------------------------------------------------ stream
\* A stream holds the bytes the peer sent and what follows them:
\*   "close"  the peer closed: a read past the bytes returns 0 (end of stream)
\*   "error"  a read past the bytes fails (reset, timeout, ...)
\*   "open"   the peer stays silent: a read past the bytes blocks for ever
StreamEnds == {"close", "error", "open"}

\* variants of read_line: end of stream is an error; a silent peer counts as
\* end of stream; a closed stream without a line left never returns
read_line_eof_is_error(avail, end) ==
    LET nl == find(avail, "\n")
    IN  IF nl # 0
        THEN (IF is_utf8(Take(avail, nl))
              THEN [kind |-> "ok", text |-> from_utf8_lossy(Take(avail, nl)),
                    rest |-> Drop(avail, nl)]
              ELSE [kind |-> "err", text |-> "", rest |-> Drop(avail, nl)])
        ELSE IF end = "open" THEN [kind |-> "block", text |-> "", rest |-> ""]
        ELSE IF end = "error" THEN [kind |-> "err", text |-> "", rest |-> ""]
        ELSE IF avail = "" THEN [kind |-> "err", text |-> "", rest |-> ""]
        ELSE IF is_utf8(avail)
             THEN [kind |-> "ok", text |-> from_utf8_lossy(avail), rest |-> ""]
        ELSE [kind |-> "err", text |-> "", rest |-> ""]

read_line_never_waits(avail, end) ==
    LET nl == find(avail, "\n")
    IN  IF nl # 0
        THEN (IF is_utf8(Take(avail, nl))
              THEN [kind |-> "ok", text |-> from_utf8_lossy(Take(avail, nl)),
                    rest |-> Drop(avail, nl)]
              ELSE [kind |-> "err", text |-> "", rest |-> Drop(avail, nl)])
        ELSE IF end = "error" THEN [kind |-> "err", text |-> "", rest |-> ""]
        ELSE IF avail = "" THEN [kind |-> "eof", text |-> "", rest |-> ""]
        ELSE IF is_utf8(avail)
             THEN [kind |-> "ok", text |-> from_utf8_lossy(avail), rest |-> ""]
        ELSE [kind |-> "err", text |-> "", rest |-> ""]

read_line_waits_when_closed(avail, end) ==
    LET nl == find(avail, "\n")
    IN  IF nl # 0
        THEN (IF is_utf8(Take(avail, nl))
              THEN [kind |-> "ok", text |-> from_utf8_lossy(Take(avail, nl)),
                    rest |-> Drop(avail, nl)]
              ELSE [kind |-> "err", text |-> "", rest |-> Drop(avail, nl)])
        ELSE IF end = "open" THEN [kind |-> "block", text |-> "", rest |-> ""]
        ELSE IF end = "error" THEN [kind |-> "err", text |-> "", rest |-> ""]
        ELSE IF avail = "" THEN [kind |-> "block", text |-> "", rest |-> ""]
        ELSE IF is_utf8(avail)
             THEN [kind |-> "ok", text |-> from_utf8_lossy(avail), rest |-> ""]
        ELSE [kind |-> "err", text |-> "", rest |-> ""]

\* BufRead::read_line on the bytes `avail` of a stream ending `end`:
\* read up to and including "\n"; the bytes read must be valid UTF-8.
\*   kind "ok"    Ok(n), n > 0: `text` was appended
\*   kind "eof"   Ok(0)
\*   kind "err"   Err(_)
\*   kind "block" the call never returns
read_line(avail, end) ==
    LET nl == find(avail, "\n")
    IN  IF nl # 0
        THEN (IF is_utf8(Take(avail, nl))
              THEN [kind |-> "ok", text |-> from_utf8_lossy(Take(avail, nl)),
                    rest |-> Drop(avail, nl)]
              ELSE [kind |-> "err", text |-> "", rest |-> Drop(avail, nl)])
        ELSE IF end = "open" THEN [kind |-> "block", text |-> "", rest |-> ""]
        ELSE IF end = "error" THEN [kind |-> "err", text |-> "", rest |-> ""]
        ELSE IF avail = "" THEN [kind |-> "eof", text |-> "", rest |-> ""]
        ELSE IF is_utf8(avail)
             THEN [kind |-> "ok", text |-> from_utf8_lossy(avail), rest |-> ""]
        ELSE [kind |-> "err", text |-> "", rest |-> ""]

\* Read::read_exact of n bytes: all n or an error (UnexpectedEof on a short
\* stream), or blocked on a silent peer
read_exact(avail, end, n) ==
    IF Len(avail) >= n
    THEN [kind |-> "ok", bytes |-> Take(avail, n), rest |-> Drop(avail, n)]
    ELSE IF end = "open" THEN [kind |-> "block", bytes |-> "", rest |-> ""]
    ELSE [kind |-> "err", bytes |-> "", rest |-> ""]

\* ------------------------------------------------------------------ clients
\* The requests the environment may send.  Everything below is the peer's
\* side of the socket: bytes on the wire and how the stream ends.
MaxBodyLen == 3

MaxContentLength == 2

MaxChunks == 2

MaxTrailing == 1

CRLF == "\r\n"

Req(bytes, end) == [bytes |-> bytes, end |-> end]

\* all byte strings over alphabet A of length at most n
RECURSIVE Strings(_, _)
Strings(A, n) ==
    IF n = 0 THEN {""}
    ELSE {""} \cup {c \o s : c \in A, s \in Strings(A, n - 1)}

\* the scenarios of the specification's section 8 and one request per failure
BaseRequests ==
    { Req("GET / HTTP/1.1\r\nHost: x\r\nContent-Length: 5\r\n\r\nhello", "close"),
      Req("POST / HTTP/1.1\r\nTransfer-Encoding: chunked\r\n\r\n4\r\nWiki\r\n5\r\npedia\r\n0\r\n\r\n", "close"),
      Req("GET / HTTP/1.1\r\nHost: x\r\n\r\n", "open"),
      Req("POST / HTTP/1.1\r\nContent-Length: 10\r\n\r\nabc", "close"),
      Req("POST / HTTP/1.1\r\nContent-Length: 1\r\n\r\n|", "close"),
      Req("POST / HTTP/1.1\r\ntransfer-encoding: Chunked\r\n\r\nA\r\n0123456789\r\n0\r\n\r\n", "close"),
      Req("POST / HTTP/1.1\r\nTransfer-Encoding: chunked\r\n\r\n2\r\nhi", "error"),
      Req("GET / HTTP/1.1\r\nHost", "error") }

BodyAlphabet == {"h", "{", "}"}

\* requests without a body header, followed by any bytes of length up to n
NoBodyRequests(n) ==
    { Req(h \o CRLF \o b, e) :
        h \in {"GET /\r\n", "GET /\r\nHost: x\r\n"},
        b \in Strings(BodyAlphabet, n),
        e \in StreamEnds }

\* requests with a Content-Length header, followed by any bytes
ContentLengthRequests ==
    { Req("POST /\r\nContent-Length: " \o ToString(n) \o CRLF \o CRLF \o b, e) :
        n \in 0..MaxContentLength,
        b \in Strings(BodyAlphabet, MaxBodyLen),
        e \in StreamEnds }

ChunkDatas == {"W", "Wi", "{", "}", "{}", "0123456789"}

\* lower-case hexadecimal numeral of n > 0
RECURSIVE Hex(_)
Hex(n) == IF n < 16 THEN Char(Digits, n + 1) ELSE Hex(n \div 16) \o Char(Digits, (n % 16) + 1)

\* one chunk on the wire: size line, data, CRLF
Chunk(data) == Hex(Len(data)) \o CRLF \o data \o CRLF

\* all sequences of at most n chunks
RECURSIVE ChunkLists(_)
ChunkLists(n) ==
    IF n = 0 THEN {<<>>}
    ELSE {<<>>} \cup {<<d>> \o cs : d \in ChunkDatas, cs \in ChunkLists(n - 1)}

RECURSIVE ChunkedBody(_)
ChunkedBody(cs) ==
    IF cs = <<>> THEN "0" \o CRLF \o CRLF ELSE Chunk(Head(cs)) \o ChunkedBody(Tail(cs))

\* well-formed chunked requests
ChunkedRequests ==
    { Req("POST /\r\nTransfer-Encoding: chunked\r\n\r\n" \o ChunkedBody(cs), e) :
        cs \in ChunkLists(MaxChunks), e \in StreamEnds }

\* requests at the edges of the header block, the framing decision and the
\* chunk loop
EdgeRequests ==
    { \* a bare LF, and white space before CRLF, inside the header block
      Req("GET / HTTP/1.1\r\n\nHost: x\r\n\r\n", "close"),
      Req("GET / HTTP/1.1\r\n \r\nContent-Length: 2\r\n\r\nhi", "close"),
      Req("GET / HTTP/1.1\r\nHost: x\r\nHost: x\r\n  Accept: y \r\n\r\n", "close"),
      \* both framing headers, in either order
      Req("POST /\r\nContent-Length: 3\r\nTransfer-Encoding: chunked\r\n\r\n2\r\nhi\r\n0\r\n\r\n", "close"),
      Req("POST /\r\nTRANSFER-ENCODING: gzip, chunked\r\ncontent-length: 3\r\n\r\n2\r\nhi\r\n0\r\n\r\n", "open"),
      \* the white space between "Content-Length:" and its value
      Req("POST /\r\nContent-Length:2\r\n\r\nhi", "close"),
      Req("POST /\r\ncontent-length:   2\r\n\r\nhi", "close"),
      Req("POST /\r\nContent-Length: x\r\nContent-Length: 2\r\n\r\nhi", "close"),
      Req("PUT /x HTTP/1.1\r\nCONTENT-LENGTH: 2\r\n\r\nhi", "close"),
      \* the stream ends before a blank line
      Req("GET / HTTP/1.1\r\nHost: x\r\n", "close"),
      Req("POST /\r\nContent-Length: 0\r\n", "close"),
      Req("POST /\r\nTransfer-Encoding: chunked\r\n", "close"),
      \* a chunk-size line that is not a hexadecimal number
      Req("POST /\r\nTransfer-Encoding: chunked\r\n\r\n2\r\nhi\r\nzz\r\n2\r\nhi\r\n0\r\n\r\n", "close"),
      Req("POST /\r\nTransfer-Encoding: chunked\r\n\r\n2\r\nhi\r\n2;x\r\nhi\r\n", "open"),
      Req("POST /\r\nTransfer-Encoding: chunked\r\n\r\n-2\r\nhi\r\n0\r\n\r\n", "error"),
      \* the stream ends at a chunk-size line
      Req("POST /\r\nTransfer-Encoding: chunked\r\n\r\n2\r\nhi\r\n", "close"),
      \* a header line that is not UTF-8; a peer that goes silent in a header
      Req("GET /\r\nHost: |\r\n\r\n", "close"),
      Req("GET /\r\nHost", "open") }

\* the universes of clients: the scenarios alone; the scenarios, the edges
\* and the requests without a body; all of the above
Requests(which) ==
    CASE which = "base" -> BaseRequests
      [] which = "nobody" -> BaseRequests \cup EdgeRequests \cup NoBodyRequests(MaxTrailing)
      [] OTHER -> BaseRequests \cup EdgeRequests \cup NoBodyRequests(MaxTrailing)
                     \cup ContentLengthRequests \cup ChunkedRequests

\* the requests whose outcome is remembered for the next connection
ProbeRequests ==
    { Req("GET / HTTP/1.1\r\nHost: x\r\nContent-Length: 5\r\n\r\nhello", "close"),
      Req("POST / HTTP/1.1\r\nTransfer-Encoding: chunked\r\n\r\n4\r\nWiki\r\n5\r\npedia\r\n0\r\n\r\n", "close"),
      Req("GET / HTTP/1.1\r\nHost", "error") }

Probes(which) == IF which = "nobody" THEN {} ELSE ProbeRequests

\* ------------------------------------------------------------------ main
\* main, line 24: the configured code is parsed once
\* variants of Validated: one more accepted value; one value mapped to its neighbour
ValidatedTakes306(code) == IF code = 306 THEN Some("UseProxy") ELSE from_u16(code)

ValidatedShifts308(code) == IF code = 308 THEN from_u16(307) ELSE from_u16(code)

Validated(code) == from_u16(code)

\* main, lines 25-26: Some(t) goes on to bind, None panics
\* variant of AfterValidate: an unknown code does not stop the start-up
AfterValidateDefaults(parsed) == "bind"

AfterValidate(parsed) == IF parsed = None THEN "panicked" ELSE "bind"

\* main, lines 24-27
main_validate ==
    /\ pc = "main"
    /\ http_response_code' = Validated(return_code)
    /\ pc' = AfterValidate(Validated(return_code))
    /\ UNCHANGED <<clients, return_code, listener, handler, request, input,
                   headers, line, is_chunked, chunk_size, content_length,
                   body, body_on_wire, reads, console, written, previous>>

\* main, lines 29-38: TcpListener::bind succeeds or fails
main_bind ==
    /\ pc = "bind"
    /\ \E ok \in BOOLEAN :
          /\ listener' = IF ok THEN "bound" ELSE "none"
          /\ pc' = IF ok THEN "accept" ELSE "exited"
    /\ UNCHANGED <<clients, return_code, http_response_code, handler, request,
                   input, headers, line, is_chunked, chunk_size,
                   content_length, body, body_on_wire, reads, console, written,
                   previous>>

\* what a client of the finished connection, and the operator, observed
Observed ==
    [handler |-> handler, headers |-> headers, body |-> body,
     console |-> console, written |-> written]

\* handle_connection, line 47
\* variant of NewHeaders: the vector outlives the invocation
KeptHeaders == headers

NewHeaders == <<>>

\* handle_connection, line 48
NewLine == ""

\* main, lines 39-41, and handle_connection, lines 45-48: the next connection
\* is accepted only when the handler is not running; its locals start fresh
main_accept ==
    /\ pc = "accept"
    /\ \E r \in Requests(clients) :
          /\ request' = r
          /\ input' = r.bytes
    /\ handler' = "running"
    /\ headers' = NewHeaders
    /\ line' = NewLine
    /\ is_chunked' = FALSE
    /\ chunk_size' = 0
    /\ content_length' = None
    /\ body' = ""
    /\ body_on_wire' = ""
    /\ reads' = 0
    /\ console' = <<>>
    /\ written' = <<>>
    /\ pc' = "header_line"
    /\ UNCHANGED <<clients, return_code, http_response_code, listener, previous>>

\* main, line 40: stream.unwrap() on a failed accept
main_accept_failed ==
    /\ pc = "accept"
    /\ pc' = "panicked"
    /\ UNCHANGED <<clients, return_code, http_response_code, listener, handler,
                   request, input, headers, line, is_chunked, chunk_size,
                   content_length, body, body_on_wire, reads, console, written,
                   previous>>

\* ------------------------------------------------------------------ handle_connection
\* lines 59-62: a failed header read is printed and the handler returns
\* variant of AfterHeaderError: the handler carries on with what it has
AfterHeaderErrorGoesOn == "framing"

AfterHeaderError == "return"

\* lines 49-64: one iteration of the header loop
header_line ==
    /\ pc = "header_line"
    /\ \E r \in {read_line(input, request.end)} :
           /\ r.kind # "block"
           /\ input' = r.rest
           /\ reads' = reads + 1
           /\ line' = r.text
           /\ body_on_wire' = IF r.kind = "eof" \/ r.text = "\r\n" THEN r.rest
                              ELSE body_on_wire
           /\ CASE r.kind = "eof" ->
                     /\ pc' = "framing"
                     /\ UNCHANGED <<headers, console, handler>>
                [] r.kind = "ok" /\ r.text = "\r\n" ->
                     /\ pc' = "framing"
                     /\ UNCHANGED <<headers, console, handler>>
                [] r.kind = "ok" /\ r.text # "\r\n" ->
                     /\ headers' = Append(headers, trim(r.text))
                     /\ pc' = "header_line"
                     /\ UNCHANGED <<console, handler>>
                [] r.kind = "err" ->
                     /\ console' = Append(console, [print |-> "Error reading line"])
                     /\ handler' = "aborted"
                     /\ pc' = AfterHeaderError
                     /\ UNCHANGED headers
    /\ UNCHANGED <<clients, return_code, http_response_code, listener, request,
                   is_chunked, chunk_size, content_length, body, written,
                   previous>>

\* variant of IsChunked: a Content-Length header takes precedence
IsChunkedWithoutLength(hs) ==
    /\ \E i \in 1..Len(hs) :
          /\ starts_with(to_lowercase(hs[i]), "transfer-encoding:")
          /\ contains(to_lowercase(hs[i]), "chunked")
    /\ \A i \in 1..Len(hs) : ~starts_with(to_lowercase(hs[i]), "content-length:")

\* lines 68-71
IsChunked(hs) ==
    \E i \in 1..Len(hs) :
        /\ starts_with(to_lowercase(hs[i]), "transfer-encoding:")
        /\ contains(to_lowercase(hs[i]), "chunked")

\* variant of ContentLength: a missing or unparseable length counts as 0
ContentLengthOrZero(hs) ==
    LET found  == {i \in 1..Len(hs) :
                     /\ starts_with(to_lowercase(hs[i]), "content-length:")
                     /\ \A j \in 1..(i - 1) :
                           ~starts_with(to_lowercase(hs[j]), "content-length:")}
        pieces == {split_nth1(hs[i]) : i \in found} \ {None}
        parsed == {parse_usize(trimmed) : trimmed \in {trim(piece.val) : piece \in pieces}}
                     \ {None}
    IN  IF parsed = {} THEN Some(0) ELSE CHOOSE length \in parsed : TRUE

\* variant of ContentLength: the header is honoured only when the request
\* line does not say GET
ContentLengthUnlessGet(hs) ==
    LET found  == {i \in 1..Len(hs) :
                     /\ starts_with(to_lowercase(hs[i]), "content-length:")
                     /\ \A j \in 1..(i - 1) :
                           ~starts_with(to_lowercase(hs[j]), "content-length:")}
        pieces == {split_nth1(hs[i]) : i \in found} \ {None}
        parsed == {parse_usize(trimmed) : trimmed \in {trim(piece.val) : piece \in pieces}}
    IN  IF parsed = {} \/ starts_with(hs[1], "GET") THEN None
        ELSE CHOOSE length \in parsed : TRUE

\* lines 90-94: find the first header that starts with "content-length:",
\* and_then the piece after its first ": ", and_then that piece trimmed and
\* parsed
ContentLength(hs) ==
    LET found  == {i \in 1..Len(hs) :
                     /\ starts_with(to_lowercase(hs[i]), "content-length:")
                     /\ \A j \in 1..(i - 1) :
                           ~starts_with(to_lowercase(hs[j]), "content-length:")}
        pieces == {split_nth1(hs[i]) : i \in found} \ {None}
        parsed == {parse_usize(trimmed) : trimmed \in {trim(piece.val) : piece \in pieces}}
    IN  IF parsed = {} THEN None ELSE CHOOSE length \in parsed : TRUE

\* line 66: println!("Headers: {:#?}", headers)
\* variant of PrintHeaders: nothing is printed
PrintHeadersSkipped(out, hs) == out

PrintHeaders(out, hs) == Append(out, [print |-> "Headers", value |-> hs])

\* line 101: println!("Body: {}", body)
PrintBody(out, text) == Append(out, [print |-> "Body", value |-> text])

\* lines 66-72 and 89-95: the headers are printed and the framing is decided
framing ==
    /\ pc = "framing"
    /\ console' = PrintHeaders(console, headers)
    /\ is_chunked' = IsChunked(headers)
    /\ body' = ""
    /\ content_length' = IF IsChunked(headers) THEN None ELSE ContentLength(headers)
    /\ pc' = IF IsChunked(headers) THEN "chunk_size"
             ELSE IF ContentLength(headers) # None THEN "content_length"
             ELSE "print_body"
    /\ UNCHANGED <<clients, return_code, http_response_code, listener, handler,
                   request, input, headers, line, chunk_size, body_on_wire,
                   reads, written, previous>>

\* variant of ChunkSize: the size is parsed in base 10
ChunkSizeDecimal(text) ==
    LET parsed == {from_str_radix(chunk_size_hex, 10) : chunk_size_hex \in {trim(text)}}
    IN  IF parsed = {None} THEN 0 ELSE (CHOOSE size \in parsed : TRUE).val

\* variant of ChunkSize: an unparseable size line is taken for a chunk of one byte
ChunkSizeOrOne(text) ==
    LET parsed == {from_str_radix(chunk_size_hex, 16) : chunk_size_hex \in {trim(text)}}
    IN  IF parsed = {None} THEN 1 ELSE (CHOOSE size \in parsed : TRUE).val

\* line 78: an unparseable size counts as 0
ChunkSize(text) ==
    LET parsed == {from_str_radix(chunk_size_hex, 16) : chunk_size_hex \in {trim(text)}}
    IN  IF parsed = {None} THEN 0 ELSE (CHOOSE size \in parsed : TRUE).val

\* lines 75-82: the chunk-size line
chunk_size_line ==
    /\ pc = "chunk_size"
    /\ \E r \in {read_line(input, request.end)} :
           /\ r.kind # "block"
           /\ input' = r.rest
           /\ reads' = reads + 1
           /\ IF r.kind = "err"
              THEN /\ pc' = "panicked"
                   /\ UNCHANGED <<line, chunk_size>>
              ELSE /\ line' = r.text
                   /\ chunk_size' = ChunkSize(r.text)
                   /\ pc' = IF ChunkSize(r.text) = 0 THEN "print_body" ELSE "chunk_data"
    /\ UNCHANGED <<clients, return_code, http_response_code, listener, handler,
                   request, headers, is_chunked, content_length, body,
                   body_on_wire, console, written, previous>>

\* line 86
ChunkText(bytes) == from_utf8_lossy(bytes)

\* lines 84-86: the chunk's data
chunk_data ==
    /\ pc = "chunk_data"
    /\ \E r \in {read_exact(input, request.end, chunk_size)} :
           /\ r.kind # "block"
           /\ input' = r.rest
           /\ reads' = reads + 1
           /\ IF r.kind = "err"
              THEN /\ pc' = "panicked"
                   /\ UNCHANGED body
              ELSE /\ body' = body \o ChunkText(r.bytes)
                   /\ pc' = "chunk_trailer"
    /\ UNCHANGED <<clients, return_code, http_response_code, listener, handler,
                   request, headers, line, is_chunked, chunk_size,
                   content_length, body_on_wire, console, written, previous>>

\* line 87: the line after the chunk's data is read (appended to `line`)
chunk_trailer ==
    /\ pc = "chunk_trailer"
    /\ \E r \in {read_line(input, request.end)} :
           /\ r.kind # "block"
           /\ input' = r.rest
           /\ reads' = reads + 1
           /\ IF r.kind = "err"
              THEN /\ pc' = "panicked"
                   /\ UNCHANGED line
              ELSE /\ line' = line \o r.text
                   /\ pc' = "chunk_size"
    /\ UNCHANGED <<clients, return_code, http_response_code, listener, handler,
                   request, headers, is_chunked, chunk_size, content_length,
                   body, body_on_wire, console, written, previous>>

\* variants of BodyRead: a short read is accepted; the stream is read to its end
BodyReadAvailable(avail, end, n) ==
    IF Len(avail) >= n THEN read_exact(avail, end, n)
    ELSE IF end = "open" THEN [kind |-> "block", bytes |-> "", rest |-> ""]
    ELSE [kind |-> "ok", bytes |-> avail, rest |-> ""]

BodyReadToEnd(avail, end, n) ==
    IF end = "open" THEN [kind |-> "block", bytes |-> "", rest |-> ""]
    ELSE [kind |-> "ok", bytes |-> avail, rest |-> ""]

\* line 97: read_exact(..).unwrap()
BodyRead(avail, end, n) == read_exact(avail, end, n)

\* line 98: String::from_utf8(..).unwrap()
BodyText(bytes) == from_utf8(bytes)

\* lines 95-99: the Content-Length body
content_length_body ==
    /\ pc = "content_length"
    /\ \E r \in {BodyRead(input, request.end, content_length.val)} :
           /\ r.kind # "block"
           /\ input' = r.rest
           /\ reads' = reads + 1
           /\ IF r.kind = "err" \/ BodyText(r.bytes) = None
              THEN /\ pc' = "panicked"
                   /\ UNCHANGED body
              ELSE /\ body' = BodyText(r.bytes).val
                   /\ pc' = "print_body"
    /\ UNCHANGED <<clients, return_code, http_response_code, listener, handler,
                   request, headers, line, is_chunked, chunk_size,
                   content_length, body_on_wire, console, written, previous>>

\* variant of StatusLine: a Content-Length header is added
StatusLineWithLength(code) ==
    "HTTP/1.1 " \o ToString(Discriminant(code)) \o " " \o reason_phrase(code)
        \o "\r\nContent-Length: 0\r\n\r\n"

\* line 102: format!("HTTP/1.1 {} {}\r\n\r\n", return_code as i32, reason_phrase)
StatusLine(code) ==
    "HTTP/1.1 " \o ToString(Discriminant(code)) \o " " \o reason_phrase(code) \o "\r\n\r\n"

\* line 103: the write_all calls made for one response
ResponseWrites(code, ok) == <<[bytes |-> StatusLine(code), ok |-> ok]>>

\* line 101: the body is printed
print_body ==
    /\ pc = "print_body"
    /\ console' = PrintBody(console, body)
    /\ pc' = "respond"
    /\ UNCHANGED <<clients, return_code, http_response_code, listener, handler,
                   request, input, headers, line, is_chunked, chunk_size,
                   content_length, body, body_on_wire, reads, written,
                   previous>>

\* lines 102-103: the response is written; a failed write_all is unwrapped
respond ==
    /\ pc = "respond"
    /\ \E ok \in BOOLEAN :
          /\ written' = written \o ResponseWrites(http_response_code.val, ok)
          /\ handler' = IF ok THEN "responded" ELSE handler
          /\ pc' = IF ok THEN "return" ELSE "panicked"
    /\ UNCHANGED <<clients, return_code, http_response_code, listener, request,
                   input, headers, line, is_chunked, chunk_size,
                   content_length, body, body_on_wire, reads, console,
                   previous>>

\* lines 62 and 104, then line 39: the handler returns, its locals and the
\* stream are dropped, and main waits for the next connection
handle_connection_return ==
    /\ pc = "return"
    /\ previous' = IF request \in Probes(clients)
                   THEN Some([request |-> request, observed |-> Observed])
                   ELSE None
    /\ handler' = "idle"
    /\ request' = Req("", "close")
    /\ input' = ""
    /\ headers' = NewHeaders
    /\ line' = NewLine
    /\ is_chunked' = FALSE
    /\ chunk_size' = 0
    /\ content_length' = None
    /\ body' = ""
    /\ body_on_wire' = ""
    /\ reads' = 0
    /\ console' = <<>>
    /\ written' = <<>>
    /\ pc' = "accept"
    /\ UNCHANGED <<clients, return_code, http_response_code, listener>>

Next ==
    \/ main_validate
    \/ main_bind
    \/ main_accept
    \/ main_accept_failed
    \/ header_line
    \/ framing
    \/ chunk_size_line
    \/ chunk_data
    \/ chunk_trailer
    \/ content_length_body
    \/ print_body
    \/ respond
    \/ handle_connection_return

\* ------------------------------------------------------------------ specifications
\* --return-code values tried by the server specification
ConfiguredCodes == {200, 404, 0, 999}

InitIdle ==
    /\ pc = "main"
    /\ http_response_code = None
    /\ listener = "none"
    /\ handler = "idle"
    /\ request = Req("", "close")
    /\ input = ""
    /\ headers = <<>>
    /\ line = ""
    /\ is_chunked = FALSE
    /\ chunk_size = 0
    /\ content_length = None
    /\ body = ""
    /\ body_on_wire = ""
    /\ reads = 0
    /\ console = <<>>
    /\ written = <<>>
    /\ previous = None

Init ==
    /\ clients = "all"
    /\ return_code \in ConfiguredCodes
    /\ InitIdle

Spec == Init /\ [][Next]_vars

\* every value of the u16 argument, with the scenario requests as clients
U16Max == 65535

InitRegistry ==
    /\ clients = "base"
    /\ return_code \in 0..U16Max
    /\ InitIdle

RegistrySpec == InitRegistry /\ [][Next]_vars

\* ------------------------------------------------------------------ properties
\* the closed set of section 3 of the specification
RegisteredCodes ==
    {100, 101, 102} \cup (200..208) \cup {226} \cup (300..305) \cup {307, 308}
        \cup (400..418) \cup (421..426) \cup {428, 429, 431, 451}
        \cup (500..508) \cup {510, 511}

\* the registry's (code, reason phrase) pairs as the HTTP RFCs name them
\* (RFC 7231 and the registrations of its time: 413 "Payload Too Large",
\* 418 "I'm a teapot", 422 "Unprocessable Entity")
CanonicalPairs ==
    <<<<100, "Continue">>,
       <<101, "Switching Protocols">>,
       <<102, "Processing">>,
       <<200, "OK">>,
       <<201, "Created">>,
       <<202, "Accepted">>,
       <<203, "Non-Authoritative Information">>,
       <<204, "No Content">>,
       <<205, "Reset Content">>,
       <<206, "Partial Content">>,
       <<207, "Multi-Status">>,
       <<208, "Already Reported">>,
       <<226, "IM Used">>,
       <<300, "Multiple Choices">>,
       <<301, "Moved Permanently">>,
       <<302, "Found">>,
       <<303, "See Other">>,
       <<304, "Not Modified">>,
       <<305, "Use Proxy">>,
       <<307, "Temporary Redirect">>,
       <<308, "Permanent Redirect">>,
       <<400, "Bad Request">>,
       <<401, "Unauthorized">>,
       <<402, "Payment Required">>,
       <<403, "Forbidden">>,
       <<404, "Not Found">>,
       <<405, "Method Not Allowed">>,
       <<406, "Not Acceptable">>,
       <<407, "Proxy Authentication Required">>,
       <<408, "Request Timeout">>,
       <<409, "Conflict">>,
       <<410, "Gone">>,
       <<411, "Length Required">>,
       <<412, "Precondition Failed">>,
       <<413, "Payload Too Large">>,
       <<414, "URI Too Long">>,
       <<415, "Unsupported Media Type">>,
       <<416, "Range Not Satisfiable">>,
       <<417, "Expectation Failed">>,
       <<418, "I'm a teapot">>,
       <<421, "Misdirected Request">>,
       <<422, "Unprocessable Entity">>,
       <<423, "Locked">>,
       <<424, "Failed Dependency">>,
       <<425, "Too Early">>,
       <<426, "Upgrade Required">>,
       <<428, "Precondition Required">>,
       <<429, "Too Many Requests">>,
       <<431, "Request Header Fields Too Large">>,
       <<451, "Unavailable For Legal Reasons">>,
       <<500, "Internal Server Error">>,
       <<501, "Not Implemented">>,
       <<502, "Bad Gateway">>,
       <<503, "Service Unavailable">>,
       <<504, "Gateway Timeout">>,
       <<505, "HTTP Version Not Supported">>,
       <<506, "Variant Also Negotiates">>,
       <<507, "Insufficient Storage">>,
       <<508, "Loop Detected">>,
       <<510, "Not Extended">>,
       <<511, "Network Authentication Required">>>>

CanonicalPhrase(c) ==
    LET i == CHOOSE i \in 1..Len(CanonicalPairs) : CanonicalPairs[i][1] = c
    IN  CanonicalPairs[i][2]

\* the status line a client must receive for configured code c
ExpectedStatusLine(c) ==
    "HTTP/1.1 " \o ToString(c) \o " " \o CanonicalPhrase(c) \o "\r\n\r\n"

Finished == handler \in {"responded", "aborted"}

\* C1: a connection handled successfully got exactly one write, the bare
\* status line of the configured code with its canonical phrase and nothing
\* else, and it is byte for byte what the connection before it got.
C1_BareStatusLine ==
    handler = "responded" =>
        /\ written = <<[bytes |-> ExpectedStatusLine(return_code), ok |-> TRUE]>>
        /\ (previous # None /\ previous.val.observed.handler = "responded")
              => previous.val.observed.written = written

C1_Witness ==
    /\ handler = "responded"
    /\ return_code = 404
    /\ is_chunked
    /\ body # ""
    /\ previous # None
    /\ previous.val.observed.handler = "responded"
    /\ ~starts_with(previous.val.request.bytes, "POST")

\* C2: no failure of one connection ends the process: the server never
\* panics while a connection is being handled.
C2_ServerSurvivesConnection == ~(pc = "panicked" /\ handler = "running")

\* C3: in Content-Length mode, when the stream ends before n body bytes
\* arrived, nothing is ever written to the connection and the handler never
\* reaches its response.
C3_TruncatedBodyNoResponse ==
    (/\ handler # "idle"
     /\ ~is_chunked
     /\ content_length # None
     /\ request.end # "open"
     /\ Len(body_on_wire) < content_length.val)
    => /\ written = <<>>
       /\ pc \notin {"print_body", "respond", "return", "accept"}
       /\ handler = "running"

C3_Witness ==
    /\ pc = "panicked"
    /\ content_length = Some(2)
    /\ body_on_wire = "h"
    /\ request.end = "close"
    /\ written = <<>>

\* C4: with a return code outside the registered set the process never
\* binds, never accepts and never runs the handler.
C4_InvalidCodeNeverListens ==
    return_code \notin RegisteredCodes =>
        /\ pc \in {"main", "panicked"}
        /\ listener = "none"
        /\ handler = "idle"
        /\ reads = 0
        /\ written = <<>>

C4_Witness == return_code = 999 /\ pc = "panicked" /\ listener = "none"

\* C5: from_u16 yields a status code for exactly the registered set and
\* None for every other 16-bit value.
C5_ClosedSet ==
    pc # "main" =>
        /\ (http_response_code # None) <=> (return_code \in RegisteredCodes)
        /\ http_response_code # None => http_response_code.val \in HttpStatusCode

C5_Witness == pc = "panicked" /\ return_code = 419 /\ http_response_code = None

\* C6: for a registered code c, from_u16(c) is a variant whose number is c
\* and whose reason phrase is the canonical phrase of c, the status line
\* written carries both, and no other registered code yields that variant.
C6_RoundTrip ==
    (pc # "main" /\ return_code \in RegisteredCodes) =>
        /\ http_response_code # None
        /\ Discriminant(http_response_code.val) = return_code
        /\ reason_phrase(http_response_code.val) = CanonicalPhrase(return_code)
        /\ \A c \in RegisteredCodes \ {return_code} : from_u16(c) # http_response_code
        /\ handler = "responded" =>
              written[1].bytes = ExpectedStatusLine(return_code)

C6_Witness ==
    /\ return_code = 418
    /\ handler = "responded"
    /\ written[1].bytes = "HTTP/1.1 418 I'm a teapot\r\n\r\n"

\* C7: every invocation of the handler starts with an empty header vector,
\* line and body and an untouched stream, and a request handled twice in a
\* row, whatever connection came before the first time, is observed the
\* second time exactly as it was the first.
C7_NoResidualState ==
    /\ (pc = "header_line" /\ reads = 0) =>
          /\ headers = <<>>
          /\ line = ""
          /\ body = ""
          /\ written = <<>>
          /\ console = <<>>
          /\ input = request.bytes
    /\ (Finished /\ previous # None /\ previous.val.request = request) =>
          previous.val.observed = Observed

C7_Witness ==
    /\ Finished
    /\ previous # None
    /\ previous.val.request = request
    /\ headers # <<>>
    /\ body # ""
    /\ previous.val.observed = Observed

\* the bytes that encode text s (UTF-8)
RECURSIVE Encode(_)
Encode(s) ==
    IF s = "" THEN ""
    ELSE (IF Char(s, 1) = "@" THEN "{}" ELSE Char(s, 1)) \o Encode(Drop(s, 1))

RECURSIVE ConcatBytes(_)
ConcatBytes(cs) == IF cs = <<>> THEN "" ELSE Head(cs) \o ConcatBytes(Tail(cs))

\* each chunk decoded on its own, ill-formed bytes replaced, then concatenated
RECURSIVE ConcatLossy(_)
ConcatLossy(cs) ==
    IF cs = <<>> THEN "" ELSE from_utf8_lossy(Head(cs)) \o ConcatLossy(Tail(cs))

ChunkedHeads ==
    {"POST /\r\nTransfer-Encoding: chunked\r\n\r\n",
     "POST / HTTP/1.1\r\nTransfer-Encoding: chunked\r\n\r\n",
     "POST / HTTP/1.1\r\ntransfer-encoding: Chunked\r\n\r\n",
     "POST /\r\nContent-Length: 3\r\nTransfer-Encoding: chunked\r\n\r\n",
     "POST /\r\nTRANSFER-ENCODING: gzip, chunked\r\ncontent-length: 3\r\n\r\n"}

UpperHex == "0123456789ABCDEF"

RECURSIVE HexUpper(_)
HexUpper(n) ==
    IF n < 16 THEN Char(UpperHex, n + 1)
    ELSE HexUpper(n \div 16) \o Char(UpperHex, (n % 16) + 1)

\* chunks c1..ck as a well-formed chunked body, sizes in lower or upper case
RECURSIVE WireOfChunks(_, _)
WireOfChunks(cs, upper) ==
    IF cs = <<>> THEN "0\r\n\r\n"
    ELSE (IF upper THEN HexUpper(Len(Head(cs))) ELSE Hex(Len(Head(cs))))
            \o "\r\n" \o Head(cs) \o "\r\n" \o WireOfChunks(Tail(cs), upper)

ChunkCases == ChunkLists(MaxChunks) \cup {<<"Wiki", "pedia">>, <<"hi">>}

\* every well-formed chunked request of the cases, with the chunks it carries
WellFormedChunked ==
    {[bytes |-> h \o WireOfChunks(cs, u), chunks |-> cs] :
        h \in ChunkedHeads, cs \in ChunkCases, u \in BOOLEAN}

\* the chunk lists of which the current request is the well-formed encoding
SentChunks ==
    IF handler = "idle" \/ \A h \in ChunkedHeads : ~starts_with(request.bytes, h) THEN {}
    ELSE {w.chunks : w \in {x \in WellFormedChunked : x.bytes = request.bytes}}

HandlerStep ==
    \/ header_line
    \/ framing
    \/ chunk_size_line
    \/ chunk_data
    \/ chunk_trailer
    \/ content_length_body
    \/ print_body
    \/ respond
    \/ handle_connection_return

InHandler ==
    pc \in {"header_line", "framing", "chunk_size", "chunk_data", "chunk_trailer",
            "content_length", "print_body", "respond", "return"}

\* how the read the handler is about to make would end
NextRead ==
    CASE pc \in {"header_line", "chunk_size", "chunk_trailer"} ->
            read_line(input, request.end).kind
      [] pc = "chunk_data" -> read_exact(input, request.end, chunk_size).kind
      [] pc = "content_length" ->
            read_exact(input, request.end, content_length.val).kind
      [] OTHER -> "none"

\* the handler is neither blocked in a read nor about to fail in one
ReadsOn == NextRead \notin {"block", "err"}

WriteFailed == Len(written) = 1 /\ ~written[1].ok

\* C8 as stated: the body is the text of the concatenated chunk bytes.
C8_BodyIsConcatenation ==
    \A cs \in SentChunks :
        pc \in {"print_body", "respond"} => body = from_utf8_lossy(ConcatBytes(cs))

\* C8, amended: for a well-formed chunked body c1..ck the handler never
\* blocks, aborts or fails before its write, and the body it assembled is the
\* concatenation, in wire order, of the chunks each decoded on its own with
\* ill-formed bytes replaced; that is the text of c1 ++ ... ++ ck when every
\* chunk is valid UTF-8 by itself.  No size line or CRLF is part of it, and
\* the one response write follows.
C8_BodyIsLossyConcatenation ==
    \A cs \in SentChunks :
        /\ handler # "aborted"
        /\ ReadsOn
        /\ (pc = "panicked" /\ handler = "running") => WriteFailed
        /\ pc \in {"print_body", "respond", "return", "panicked"} =>
              /\ body = ConcatLossy(cs)
              /\ (\A i \in 1..Len(cs) : is_utf8(cs[i])) => Encode(body) = ConcatBytes(cs)
        /\ handler = "responded" =>
              written = <<[bytes |-> ExpectedStatusLine(return_code), ok |-> TRUE]>>

C8_Witness ==
    /\ handler = "responded"
    /\ <<"{", "}">> \in SentChunks
    /\ body = "??"
    /\ Len(written) = 1

\* the bytes that follow the first blank line (a line that is exactly CRLF)
RECURSIVE AfterBlankLine(_)
AfterBlankLine(bytes) ==
    LET nl == find(bytes, "\n")
    IN  IF nl = 0 THEN None
        ELSE IF Take(bytes, nl) = "\r\n" THEN Some(Drop(bytes, nl))
        ELSE AfterBlankLine(Drop(bytes, nl))

\* C9: in Content-Length mode with n bytes of valid UTF-8 following the
\* blank line, the handler consumes exactly those n bytes: the body is the
\* text they encode, every later byte is left unread (also for n = 0 and for
\* a client that sent more), the handler does not block or fail before its
\* write, and the one response write follows.
C9_ExactlyNBytes ==
    LET after == AfterBlankLine(request.bytes)
    IN  (/\ handler # "idle"
         /\ ~is_chunked
         /\ content_length # None
         /\ after # None
         /\ Len(after.val) >= content_length.val
         /\ is_utf8(Take(after.val, content_length.val)))
        => /\ handler # "aborted"
           /\ ReadsOn
           /\ pc = "content_length" => input = after.val
           /\ (pc = "panicked" /\ handler = "running") => WriteFailed
           /\ pc \in {"print_body", "respond", "return", "panicked"} =>
                 /\ Encode(body) = Take(after.val, content_length.val)
                 /\ input = Drop(after.val, content_length.val)
           /\ handler = "responded" =>
                 written = <<[bytes |-> ExpectedStatusLine(return_code), ok |-> TRUE]>>

C9_Witness ==
    /\ handler = "responded"
    /\ content_length = Some(2)
    /\ body_on_wire = "{}h"
    /\ body = "@"
    /\ input = "h"
    /\ request.end = "open"

C9_WitnessZero ==
    /\ handler = "responded"
    /\ content_length = Some(0)
    /\ body = ""
    /\ input = "hh"

\* a header line that selects a body framing
IsFramingHeader(h) ==
    \/ starts_with(to_lowercase(h), "content-length:")
    \/ starts_with(to_lowercase(h), "transfer-encoding:") /\ contains(to_lowercase(h), "chunked")

NoBodyMode ==
    /\ handler # "idle"
    /\ pc # "header_line"
    /\ handler # "aborted"
    /\ \A i \in 1..Len(headers) : ~IsFramingHeader(headers[i])

\* C10: in NoBody mode the handler makes no read after the header block (the
\* reads made are the header lines and the one that ended the block, the
\* stream is left as it was, the body is empty), nothing but a failed write
\* stops it, and the response write always follows, also on a peer that
\* stays silent with the connection open.
C10_NoBodyNoRead ==
    /\ [](NoBodyMode =>
            /\ body = ""
            /\ input = body_on_wire
            /\ reads = Len(headers) + 1
            /\ pc \notin {"chunk_size", "chunk_data", "chunk_trailer", "content_length"}
            /\ (pc = "panicked" /\ handler = "running") => WriteFailed)
    /\ ((pc = "framing" /\ NoBodyMode) ~> (Len(written) = 1))

C10_Witness ==
    /\ NoBodyMode
    /\ handler = "responded"
    /\ request.end = "open"
    /\ body_on_wire = ""
    /\ headers # <<>>
    /\ Len(written) = 1

InitNoBody ==
    /\ clients = "nobody"
    /\ return_code \in ConfiguredCodes
    /\ InitIdle

\* the single thread goes on running whenever it is not blocked in a read
FairSpec == InitNoBody /\ [][Next]_vars /\ WF_vars(HandlerStep)

\* ------------------------------------------------------------------ header collection
\* C11: the collected header lines never contain an empty string: collection
\* stops at the first line that is empty once trimmed, also for a bare LF and
\* for white space followed by CRLF.
C11_NoEmptyHeader ==
    \A i \in 1..Len(headers) : headers[i] # ""

\* ------------------------------------------------------------------ framing decision
\* the handler is past its framing decision
Decided ==
    /\ handler \in {"running", "responded"}
    /\ pc \notin {"header_line", "framing"}

\* header line h begins, whatever the case of its letters, with the
\* lower-case text p
BeginsWith(h, p) ==
    /\ Len(h) >= Len(p)
    /\ to_lowercase(Take(h, 1)) = Take(p, 1)
    /\ to_lowercase(Take(h, Len(p))) = p

HasLengthHeader(hs) ==
    \E i \in 1..Len(hs) : BeginsWith(hs[i], "content-length:")

HasChunkedHeader(hs) ==
    \E i \in 1..Len(hs) :
        /\ BeginsWith(hs[i], "transfer-encoding:")
        /\ contains(to_lowercase(hs[i]), "chunked")

\* C12: when the collected headers hold both a chunked Transfer-Encoding line
\* and a Content-Length line, in either order, the mode is Chunked: no
\* Content-Length is kept, the Content-Length read is never reached, and the
\* bytes after the header block are read as chunks.
C12_ChunkedWins ==
    (Decided /\ HasLengthHeader(headers) /\ HasChunkedHeader(headers)) =>
        /\ is_chunked
        /\ content_length = None
        /\ pc # "content_length"
        /\ pc \in {"print_body", "respond", "return"} =>
              \A cs \in SentChunks : body = ConcatLossy(cs)

C12_Witness ==
    /\ handler = "responded"
    /\ headers = <<"POST /", "Content-Length: 3", "Transfer-Encoding: chunked">>
    /\ is_chunked
    /\ body = "hi"
    /\ reads = 8

\* the value of a Content-Length header line: what follows the colon, without
\* the white space around it, read as a base-10 non-negative integer
LengthValue(h) ==
    LET text == trim(Drop(h, Len("content-length:")))
    IN  IF text # "" /\ \A k \in 1..Len(text) : find("0123456789", Char(text, k)) # 0
        THEN parse_usize(text)
        ELSE None

\* C13: without a chunked Transfer-Encoding header, any header line that
\* begins with "content-length:" and carries an integer n selects
\* ContentLength(n), whatever white space follows the colon, and NoBody is
\* chosen only when there is no such line.
C13_LengthWhateverSpace ==
    (Decided /\ ~HasChunkedHeader(headers)) =>
        /\ \A i \in 1..Len(headers) :
              (BeginsWith(headers[i], "content-length:") /\ LengthValue(headers[i]) # None)
                  => content_length = LengthValue(headers[i])
        /\ content_length = None =>
              \A i \in 1..Len(headers) :
                  ~(BeginsWith(headers[i], "content-length:") /\ LengthValue(headers[i]) # None)

\* C14: when the stream ends before any blank line, header collection ends
\* without an error: the step taken at the end of the stream keeps the header
\* lines collected so far, prints and writes nothing, does not abort the
\* handler and hands over to the framing decision, which is then made on
\* those lines and leads on to the body.
C14_EndOfStreamEndsHeaders ==
    [][ /\ (pc = "header_line" /\ input = "" /\ request.end = "close") =>
              /\ pc' = "framing"
              /\ headers' = headers
              /\ handler' = "running"
              /\ console' = console
              /\ written' = written
        /\ (pc = "framing" /\ line = "" /\ input = "" /\ request.end = "close") =>
              /\ headers' = headers
              /\ handler' = "running"
              /\ pc' = IF HasChunkedHeader(headers) THEN "chunk_size"
                       ELSE IF content_length' # None THEN "content_length"
                       ELSE "print_body"
      ]_vars

C14_Witness ==
    /\ request = Req("POST /\r\nContent-Length: 0\r\n", "close")
    /\ handler = "responded"
    /\ headers = <<"POST /", "Content-Length: 0">>
    /\ content_length = Some(0)
    /\ reads = 4
    /\ body = ""

\* ------------------------------------------------------------------ state machine
\* the handler's state at control position p: 1 HeaderCollection,
\* 2 FramingDecision, 3 BodyAssembly, 4 Respond, 5 returned; 0 outside
StateOf(p) ==
    CASE p = "header_line" -> 1
      [] p = "framing" -> 2
      [] p \in {"chunk_size", "chunk_data", "chunk_trailer", "content_length",
                "print_body"} -> 3
      [] p = "respond" -> 4
      [] p = "return" -> 5
      [] OTHER -> 0

\* request lines of several methods and paths
RequestLines ==
    {"GET / HTTP/1.1", "GET /", "POST / HTTP/1.1", "POST /", "PUT /x HTTP/1.1",
     "DELETE /content-length: HTTP/1.1", "OPTIONS * HTTP/1.1"}

\* C15: within one connection the handler's states are visited in the order
\* HeaderCollection, FramingDecision, BodyAssembly, Respond and never
\* backwards; headers change only in HeaderCollection, the stream is read
\* only before Respond, the response is written only in Respond, and the
\* framing decision (compared on the connections that follow no remembered
\* one) is the same whatever request line stands first.
C15_StatesInOrder ==
    [][ /\ (StateOf(pc) # 0 /\ StateOf(pc') # 0) => StateOf(pc') >= StateOf(pc)
        /\ (StateOf(pc) \in 1..4 /\ headers' # headers) => StateOf(pc) = 1
        /\ (StateOf(pc) \in 1..4 /\ (input' # input \/ reads' # reads)) =>
              /\ StateOf(pc) \in {1, 3}
              /\ written = <<>>
        /\ (StateOf(pc) \in 1..4 /\ written' # written) =>
              /\ StateOf(pc) = 4
              /\ StateOf(pc') \in {0, 5}
        /\ (StateOf(pc) = 1 /\ StateOf(pc') = 5) => handler' = "aborted"
        /\ (StateOf(pc) = 2 /\ previous = None /\ headers # <<>>
                /\ headers[1] \in RequestLines) =>
              \A l \in RequestLines :
                  /\ is_chunked' = IsChunked(<<l>> \o Tail(headers))
                  /\ content_length' = IF is_chunked' THEN None
                                        ELSE ContentLength(<<l>> \o Tail(headers))
      ]_vars

C15_Witness ==
    /\ request = Req("PUT /x HTTP/1.1\r\nCONTENT-LENGTH: 2\r\n\r\nhi", "close")
    /\ pc = "return"
    /\ handler = "responded"
    /\ body = "hi"
    /\ Len(console) = 2
    /\ Len(written) = 1

\* ------------------------------------------------------------------ chunk loop
\* the chunk-size line about to be read is text that is no hexadecimal number
MalformedSizeAhead ==
    /\ pc = "chunk_size"
    /\ \E r \in {read_line(input, request.end)} :
          /\ r.kind = "ok"
          /\ from_str_radix(trim(r.text), 16) = None

\* C16: a chunk-size line that does not parse as a hexadecimal number ends
\* the chunk loop like a terminal 0 chunk: the step that reads it keeps the
\* body and goes to the end of body assembly without error or abort, and
\* from there nothing more is read, the body accumulated so far is printed
\* and the response write is made.
C16_MalformedSizeEndsBody ==
    [][ /\ MalformedSizeAhead =>
              /\ pc' = "print_body"
              /\ chunk_size' = 0
              /\ body' = body
              /\ handler' = "running"
        /\ pc = "print_body" =>
              /\ pc' = "respond"
              /\ console' = Append(console, [print |-> "Body", value |-> body])
              /\ input' = input /\ reads' = reads /\ body' = body
        /\ pc = "respond" =>
              /\ Len(written') = 1
              /\ written'[1].bytes = ExpectedStatusLine(return_code)
              /\ input' = input /\ reads' = reads /\ body' = body
      ]_vars

C16_Witness ==
    /\ request = Req("POST /\r\nTransfer-Encoding: chunked\r\n\r\n2\r\nhi\r\nzz\r\n2\r\nhi\r\n0\r\n\r\n", "close")
    /\ handler = "responded"
    /\ line = "zz\r\n"
    /\ body = "hi"
    /\ input = "2\r\nhi\r\n0\r\n\r\n"
    /\ Len(written) = 1

\* ------------------------------------------------------------------ failures and scheduling
\* C17: a failed read of a header line aborts that connection only: the
\* handler prints the error and returns at once, having read no body and
\* written no response, and main goes back to accepting.
C17_HeaderErrorAbortsConnection ==
    [][ /\ (pc = "header_line" /\ read_line(input, request.end).kind = "err") =>
              /\ handler' = "aborted"
              /\ pc' = "return"
        /\ handler = "aborted" =>
              /\ pc = "return"
              /\ written = <<>>
              /\ body = ""
              /\ reads = Len(headers) + 1
              /\ console = <<[print |-> "Error reading line"]>>
              /\ pc' = "accept"
              /\ listener' = "bound"
      ]_vars

C17_Witness ==
    /\ previous # None
    /\ previous.val.observed.handler = "aborted"
    /\ previous.val.observed.written = <<>>
    /\ handler = "responded"
    /\ body = "hello"

\* the connection in the handler waits for bytes its silent peer has not sent
Blocked ==
    /\ handler = "running"
    /\ request.end = "open"
    /\ \/ pc \in {"header_line", "chunk_size", "chunk_trailer"} /\ find(input, "\n") = 0
       \/ pc = "chunk_data" /\ Len(input) < chunk_size
       \/ pc = "content_length" /\ Len(input) < content_length.val

\* C18: connections are handled one at a time: a connection enters the
\* handler only from the accept position with no connection in the handler,
\* the connection being handled changes only there or at the handler's
\* return, and while the handler waits for a silent peer nothing happens at
\* all, no accept included.
C18_OneConnectionAtATime ==
    [][ /\ (pc' = "header_line" /\ pc # "header_line") =>
              /\ pc = "accept"
              /\ handler = "idle"
              /\ handler' = "running"
        /\ request' # request => pc \in {"accept", "return"}
        /\ pc' = "accept" => handler' = "idle"
        /\ ~Blocked
      ]_vars

C18_Witness ==
    /\ Blocked
    /\ request = Req("GET /\r\nHost", "open")
    /\ headers = <<"GET /">>
    /\ previous # None
    /\ written = <<>>

\* ------------------------------------------------------------------ console
\* C19: on the way to the response the header lines are printed exactly once,
\* after header collection and before any byte of the body is read, and the
\* assembled body is printed exactly once, after body assembly and before
\* the response write, in every framing mode.
C19_ConsoleOrder ==
    handler \in {"running", "responded"} =>
        /\ StateOf(pc) = 1 => console = <<>>
        /\ StateOf(pc) = 2 =>
              /\ console = <<>>
              /\ input = body_on_wire
        /\ StateOf(pc) = 3 =>
              console = <<[print |-> "Headers", value |-> headers]>>
        /\ StateOf(pc) \in {4, 5} =>
              console = <<[print |-> "Headers", value |-> headers],
                          [print |-> "Body", value |-> body]>>
        /\ StateOf(pc) \in 1..4 => written = <<>>
        /\ written # <<>> => Len(console) = 2
        /\ input # body_on_wire /\ StateOf(pc) > 1 => Len(console) >= 1

C19_Witness ==
    /\ handler = "responded"
    /\ is_chunked
    /\ console = <<[print |-> "Headers",
                    value |-> <<"POST / HTTP/1.1", "Transfer-Encoding: chunked">>],
                  [print |-> "Body", value |-> "Wikipedia"]>>
    /\ Len(written) = 1
    /\ previous # None
    /\ previous.val.observed.body = "hello"
    /\ Len(previous.val.observed.console) = 2

\* ------------------------------------------------------------------ termination
\* C20: on a stream that the peer closes after finitely many bytes the handler
\* terminates: every pass of the header loop and of the chunk loop consumes
\* at least one byte or leaves the loop, the end of the stream at a
\* chunk-size line ends the chunk loop like a terminal chunk, and the handler
\* always gets to its response or is aborted (by its return or by the panic
\* of an unwrap).
C20_HandlerTerminates ==
    /\ [][ /\ (pc = "header_line" /\ pc' = "header_line") => Len(input') < Len(input)
           /\ (pc = "chunk_size" /\ pc' = "chunk_data") => Len(input') < Len(input)
           /\ (pc = "chunk_trailer" /\ pc' = "chunk_size") => Len(input') <= Len(input)
           /\ (pc = "chunk_size" /\ input = "" /\ request.end = "close") =>
                 /\ pc' = "print_body"
                 /\ body' = body
          ]_vars
    /\ ((handler = "running" /\ request.end = "close")
            ~> (StateOf(pc) >= 4 \/ handler = "aborted" \/ pc = "panicked"))

C20_Witness ==
    /\ request = Req("POST /\r\nTransfer-Encoding: chunked\r\n\r\n2\r\nhi\r\n", "close")
    /\ handler = "responded"
    /\ body = "hi"
    /\ line = ""
    /\ input = ""
    /\ reads = 7

====
